---------------------------- MODULE Spec2Model ----------------------------
(***************************************************************************)
(* Model of the Nearby Business Finder (src/App.tsx and                    *)
(* src/services/geminiService.ts): the App component's state, its event    *)
(* handlers and effects, the lookup service's post-processing, the ranker  *)
(* (businessesWithDistance) and the favourites kept in localStorage.       *)
(*                                                                         *)
(* Conventions.  A value that may be null/undefined is a sequence of       *)
(* length 0 (absent) or 1 (present).  Text typed by the user is a sequence *)
(* of one-character strings, so that trim() is computed.  Numbers are      *)
(* fixed point: coordinates are hundredths of a degree, angles are units   *)
(* of 10^-5 rad, distances are metres.                                     *)
(***************************************************************************)
EXTENDS Integers, Sequences, FiniteSets

VARIABLES
    searchTerm,       \* App.tsx:26  text
    manualLocation,   \* App.tsx:27  text
    businesses,       \* App.tsx:28  sequence of Business
    favorites,        \* App.tsx:29  sequence of Business
    isLoading,        \* App.tsx:30
    error,            \* App.tsx:31  message (sequence of strings) or NULL
    location,         \* App.tsx:32  optional LocationCoords
    locationError,    \* App.tsx:33  message or NULL
    searchRadius,     \* App.tsx:35  km
    storage,          \* localStorage slot 'favoriteBusinesses'
    mounted,          \* whether the two mount effects (App.tsx:38-67) have run
    geoPending,       \* a getCurrentPosition request awaits its callback
    hasApiKey,        \* process.env.API_KEY is set
    inFlight          \* sequence of pending findNearbyBusinesses calls

vars == <<searchTerm, manualLocation, businesses, favorites, isLoading, error,
          location, locationError, searchRadius, storage, mounted, geoPending,
          hasApiKey, inFlight>>

-----------------------------------------------------------------------------
(* Optional values, null, sequences *)

None == <<>>

Some(x) == <<x>>

IsSome(o) == Len(o) > 0

Val(o) == o[1]

NULL == <<>>

Range(s) == {s[i] : i \in 1..Len(s)}

SeqsUpTo(S, n) == UNION {[1..k -> S] : k \in 0..n}

-----------------------------------------------------------------------------
(* Text *)

IsWhitespace(ch) == ch = " "

\* String.prototype.trim: strips white space from both ends.
RECURSIVE TrimStart(_)
TrimStart(t) ==
    IF t # <<>> /\ IsWhitespace(Head(t)) THEN TrimStart(Tail(t)) ELSE t

RECURSIVE TrimEnd(_)
TrimEnd(t) ==
    IF t # <<>> /\ IsWhitespace(t[Len(t)])
    THEN TrimEnd(SubSeq(t, 1, Len(t) - 1)) ELSE t

trim(t) == TrimEnd(TrimStart(t))

\* A string is truthy iff it is not empty.
Truthy(t) == t # <<>>

-----------------------------------------------------------------------------
(* Distance Calculator (App.tsx:9-22), in fixed point.                     *)
(* Coordinates: 1 = 0.01 degree.  Angles: 1 = 10^-5 rad.  Distances: 1 = 1m *)

\* Division rounding toward zero: like IEEE rounding it commutes with
\* negation, which \div (rounding down) does not.
Quot(a, b) == IF a >= 0 THEN a \div b ELSE -((-a) \div b)

\* x * (Math.PI / 180): 0.01 degree = 17.4533 * 10^-5 rad
ToRadians(x) == Quot(x * 174533, 10000)

\* Math.sin for a small angle (|x| <= 1200): x - x^3/6
sin(x) == x - Quot(Quot(x * x, 100000) * x, 600000)

\* Math.cos for |x| <= 46340 (26.5 degrees), result in thousandths:
\* 1 - x^2/2.  x * x is in units of 10^-10.
cos(x) == 1000 - Quot(Quot(x * x, 100000), 200)

\* Math.sqrt: the integer square root, for n >= 0
RECURSIVE SqrtFrom(_, _, _)
SqrtFrom(n, lo, hi) ==
    IF lo >= hi THEN lo
    ELSE LET mid == (lo + hi + 1) \div 2
         IN  IF mid * mid <= n THEN SqrtFrom(n, mid, hi)
             ELSE SqrtFrom(n, lo, mid - 1)

sqrt(n) == SqrtFrom(n, 0, 46340)

\* Math.atan2(y, x) for 0 <= y << x: t - t^3/3 with t = y/x.
\* y is in units of 10^-5, x in units of 10^-4, the result in 10^-5 rad.
atan2(y, x) ==
    LET t == Quot(y * 10000, x)
    IN  t - Quot(Quot(t * t, 100000) * t, 300000)

EarthRadiusKm == 6371

\* Variant of getDistance that takes both cosines at loc1.
getDistance_CosOfLoc1Twice(loc1, loc2) ==
    LET R    == EarthRadiusKm
        dLat == ToRadians(loc2.latitude - loc1.latitude)
        dLon == ToRadians(loc2.longitude - loc1.longitude)
        a    == sin(Quot(dLat, 2)) * sin(Quot(dLat, 2))
                + Quot(Quot(cos(ToRadians(loc1.latitude))
                            * cos(ToRadians(loc1.latitude)), 1000)
                       * sin(Quot(dLon, 2)) * sin(Quot(dLon, 2)), 1000)
        c    == 2 * atan2(sqrt(a), sqrt(100000000 - Quot(a, 100)))
        d    == Quot(R * c, 100)
    IN  d

\* App.tsx:9-22
getDistance(loc1, loc2) ==
    LET R    == EarthRadiusKm
        dLat == ToRadians(loc2.latitude - loc1.latitude)
        dLon == ToRadians(loc2.longitude - loc1.longitude)
        \* a is in units of 10^-10
        a    == sin(Quot(dLat, 2)) * sin(Quot(dLat, 2))
                + Quot(Quot(cos(ToRadians(loc1.latitude))
                            * cos(ToRadians(loc2.latitude)), 1000)
                       * sin(Quot(dLon, 2)) * sin(Quot(dLon, 2)), 1000)
        \* sqrt(1 - a) in units of 10^-4
        c    == 2 * atan2(sqrt(a), sqrt(100000000 - Quot(a, 100)))
        d    == Quot(R * c, 100)            \* km * 10^-5 rad = 10^-2 m
    IN  d

-----------------------------------------------------------------------------
(* Bounds and input domains *)

\* Longest list of entries one lookup response carries.
MaxResults == 3

\* Longest favourites list found in localStorage at startup.
MaxStored == 1

\* What the user types into the category box and the manual location box.
SearchTerms == {<<>>, <<" ">>, <<" ", "c">>}

ManualLocations == {<<>>, <<" ">>, <<"x">>}

\* Values of the radius slider (App.tsx:268-269 allows 1..50).
Radii == {10, 50}

DefaultRadius == 50

\* Positions getCurrentPosition reports.
Positions == {[latitude |-> 10, longitude |-> 10]}

Item(t, p, lat, lon) ==
    [title |-> t, placeId |-> p, latitude |-> lat, longitude |-> lon]

\* Entries of the "businesses" array of a JSON reply (geolocation search).
\* From the position (10,10): p1/A and p2/C are both about 4.3 km away,
\* p1/B is about 22 km away, p2/Cafe Z lies on the equator about 35 km away,
\* p3/D carries no coordinates.
JsonItems ==
    { Item("A",      "p1", Some(14), Some(10)),
      Item("B",      "p1", Some(30), Some(10)),
      Item("C",      "p2", Some(6),  Some(10)),
      Item("Cafe Z", "p2", Some(0),  Some(40)),
      Item("D",      "p3", None,     None) }

Chunk(t, u, p) == [maps |-> Some([title |-> t, uri |-> u, placeId |-> p])]

\* Grounding chunks of a reply to a manual-location search; the last two
\* are chunks the service drops (no title, no maps part).
GroundingChunks ==
    { Chunk("A", "maps://1a", "p1"),
      Chunk("B", "maps://1b", "p1"),
      Chunk("C", "maps://2c", "p2"),
      Chunk("",  "maps://3",  "p3"),
      [maps |-> None] }

-----------------------------------------------------------------------------
(* Lookup service: findNearbyBusinesses (geminiService.ts:4-94) *)

\* encodeURIComponent on the titles above: a space becomes %20, letters stay.
encodeURIComponent(s) == IF s = "Cafe Z" THEN "Cafe%20Z" ELSE s

\* geminiService.ts:61-67
BusinessFromJson(b) ==
    [title     |-> b.title,
     placeId   |-> b.placeId,
     latitude  |-> b.latitude,
     longitude |-> b.longitude,
     uri       |-> <<"https://www.google.com/maps/search/?api=1&query=",
                     encodeURIComponent(b.title),
                     "&query_place_id=", b.placeId>>]

\* geminiService.ts:74
ChunkUsable(chunk) ==
    /\ IsSome(chunk.maps)
    /\ Val(chunk.maps).title # ""
    /\ Val(chunk.maps).uri # ""

\* geminiService.ts:75-79 (no latitude, no longitude)
BusinessFromChunk(chunk) ==
    [title     |-> Val(chunk.maps).title,
     placeId   |-> Val(chunk.maps).placeId,
     latitude  |-> None,
     longitude |-> None,
     uri       |-> <<Val(chunk.maps).uri>>]

\* Variant of MapSet that leaves an existing key's value alone.
MapSet_KeepFirst(m, key, value) ==
    IF \E i \in 1..Len(m) : m[i][1] = key
    THEN m
    ELSE Append(m, <<key, value>>)

\* Variant of MapSet that moves an existing key to the end.
MapSet_MoveToEnd(m, key, value) ==
    Append(SelectSeq(m, LAMBDA e : e[1] # key), <<key, value>>)

\* Map.prototype.set on a Map kept as the sequence of its entries in
\* insertion order: an existing key keeps its position and takes the new
\* value, a new key is appended.
MapSet(m, key, value) ==
    IF \E i \in 1..Len(m) : m[i][1] = key
    THEN [i \in 1..Len(m) |-> IF m[i][1] = key THEN <<key, value>> ELSE m[i]]
    ELSE Append(m, <<key, value>>)

\* new Map(iterable of [key, value])
RECURSIVE NewMapFrom(_, _)
NewMapFrom(m, entries) ==
    IF entries = <<>> THEN m
    ELSE NewMapFrom(MapSet(m, Head(entries)[1], Head(entries)[2]), Tail(entries))

\* geminiService.ts:84
uniqueBusinesses(list) ==
    LET entries == [i \in 1..Len(list) |-> <<list[i].placeId, list[i]>>]
        m       == NewMapFrom(<<>>, entries)
    IN  [i \in 1..Len(m) |-> m[i][2]]

\* What generateContent can settle with.  A JSON reply is well formed or
\* not, and may lack the "businesses" member.
Doc(list) == [wellFormed |-> TRUE, businesses |-> list]

MalformedDoc == [wellFormed |-> FALSE, businesses |-> None]

Fulfilled(text, chunks) ==
    [rejected |-> FALSE, isError |-> FALSE, message |-> <<>>,
     text |-> text, groundingChunks |-> chunks]

Rejected(isErr, msg) ==
    [rejected |-> TRUE, isError |-> isErr, message |-> msg,
     text |-> None, groundingChunks |-> None]

Rejections == {Rejected(TRUE, <<"503 unavailable">>), Rejected(FALSE, <<>>)}

JsonReplies ==
    {Fulfilled(None, None), Fulfilled(Some(MalformedDoc), None),
     Fulfilled(Some(Doc(None)), None)}
    \cup {Fulfilled(Some(Doc(Some(l))), None) : l \in SeqsUpTo(JsonItems, MaxResults)}

MapsReplies ==
    {Fulfilled(None, None)}
    \cup {Fulfilled(None, Some(l)) : l \in SeqsUpTo(GroundingChunks, MaxResults)}

Ok(list) == [ok |-> TRUE, value |-> list, message |-> <<>>]

Throw(msg) == [ok |-> FALSE, value |-> <<>>, message |-> msg]

\* geminiService.ts:87-93
Rethrow(isErr, msg) ==
    IF isErr THEN Throw(<<"Failed to find businesses: ">> \o msg)
    ELSE Throw(<<"An unknown error occurred while finding businesses.">>)

\* geminiService.ts:9-53: the part of findNearbyBusinesses that runs before
\* its await.  A call holds its arguments, the reply of generateContent
\* (absent while the request is out) and what the call has returned or
\* thrown (absent until it has).  Without an API key or a place to search
\* it throws at once.
findNearbyBusinessesCall(category, loc, manual) ==
    [category |-> category, location |-> loc, manualLocation |-> manual,
     reply |-> None,
     result |->
        IF ~hasApiKey
        THEN Some(Rethrow(TRUE, <<"API_KEY environment variable not set">>))
        ELSE IF IsSome(loc) THEN None
        ELSE IF Truthy(trim(manual)) THEN None
        ELSE Some(Rethrow(TRUE,
               <<"A location (either automatic or manual) must be provided.">>))]

\* geminiService.ts:55-81: the list "businesses" before duplicates are
\* removed, for a reply whose text, if any, parses.
ReturnedBusinesses(call) ==
    LET response == Val(call.reply)
    IN  IF IsSome(call.location)
        THEN IF IsSome(response.text) /\ IsSome(Val(response.text).businesses)
             THEN LET list == Val(Val(response.text).businesses)
                  IN  [i \in 1..Len(list) |-> BusinessFromJson(list[i])]
             ELSE <<>>
        ELSE LET groundingChunks == response.groundingChunks
             IN  IF IsSome(groundingChunks) /\ Len(Val(groundingChunks)) > 0
                 THEN LET kept == SelectSeq(Val(groundingChunks), ChunkUsable)
                      IN  [i \in 1..Len(kept) |-> BusinessFromChunk(kept[i])]
                 ELSE <<>>

\* JSON.parse(response.text) throws (geminiService.ts:60)
ParseFails(call) ==
    LET response == Val(call.reply)
    IN  /\ IsSome(call.location)
        /\ IsSome(response.text)
        /\ ~Val(response.text).wellFormed

\* geminiService.ts:55-93: what the call returns or throws once
\* generateContent has settled.
findNearbyBusinessesReturn(call) ==
    LET response == Val(call.reply)
    IN  IF response.rejected THEN Rethrow(response.isError, response.message)
        ELSE IF ParseFails(call)
        THEN Rethrow(TRUE, <<"Unexpected token in JSON">>)
        ELSE Ok(uniqueBusinesses(ReturnedBusinesses(call)))

-----------------------------------------------------------------------------
(* Favourites store (App.tsx:37-47, 69-83) *)

Member(name, value) == [name |-> name, value |-> value]

\* JSON.stringify of one Business: the members that are not undefined.
StringifyBusiness(b) ==
    <<Member("title", <<b.title>>), Member("placeId", <<b.placeId>>)>>
    \o (IF IsSome(b.latitude) THEN <<Member("latitude", b.latitude)>> ELSE <<>>)
    \o (IF IsSome(b.longitude) THEN <<Member("longitude", b.longitude)>> ELSE <<>>)
    \o <<Member("uri", b.uri)>>

\* JSON.stringify of the favourites array
JSONstringify(list) ==
    [wellFormed |-> TRUE,
     items |-> [i \in 1..Len(list) |-> StringifyBusiness(list[i])]]

Get(members, name) ==
    LET hits == SelectSeq(members, LAMBDA m : m.name = name)
    IN  IF hits = <<>> THEN None ELSE hits[Len(hits)].value

ParseBusiness(members) ==
    [title     |-> Val(Get(members, "title")),
     placeId   |-> Val(Get(members, "placeId")),
     latitude  |-> Get(members, "latitude"),
     longitude |-> Get(members, "longitude"),
     uri       |-> Get(members, "uri")]

\* JSON.parse of a well-formed favourites string
JSONparse(str) == [i \in 1..Len(str.items) |-> ParseBusiness(str.items[i])]

CorruptString == [wellFormed |-> FALSE, items |-> <<>>]

\* Variant of isFavorite that compares whole records.
isFavorite_SameRecord(favs, business) ==
    \E i \in 1..Len(favs) : favs[i] = business

\* App.tsx:69-72
isFavorite(favs, business) ==
    \E i \in 1..Len(favs) : favs[i].placeId = business.placeId

\* Variant of updatedFavorites whose filter keeps what it should drop.
updatedFavorites_InvertedFilter(favs, business) ==
    IF \E i \in 1..Len(favs) : favs[i].placeId = business.placeId
    THEN SelectSeq(favs, LAMBDA fav : fav.placeId = business.placeId)
    ELSE Append(favs, business)

\* App.tsx:75-80
updatedFavorites(favs, business) ==
    IF isFavorite(favs, business)
    THEN SelectSeq(favs, LAMBDA fav : fav.placeId # business.placeId)
    ELSE Append(favs, business)

-----------------------------------------------------------------------------
(* Result ranker: businessesWithDistance (App.tsx:130-145) *)

\* App.tsx:136: biz.latitude && biz.longitude -- a number is truthy when it
\* is present and not 0.
HasCoordinates(biz) ==
    /\ IsSome(biz.latitude) /\ Val(biz.latitude) # 0
    /\ IsSome(biz.longitude) /\ Val(biz.longitude) # 0

\* App.tsx:135-142
WithDistance(loc, biz) ==
    IF HasCoordinates(biz)
    THEN [biz |-> biz,
          distance |-> Some(getDistance(loc,
                          [latitude |-> Val(biz.latitude),
                           longitude |-> Val(biz.longitude)]))]
    ELSE [biz |-> biz, distance |-> None]

\* App.tsx:143: distance === undefined || distance <= searchRadius,
\* the radius in km against a distance in metres.
WithinRadius(entry, radius) ==
    ~IsSome(entry.distance) \/ Val(entry.distance) <= radius * 1000

\* Variant of CompareDistance that takes an undefined distance as 0.
CompareDistance_UndefinedAsZero(a, b) ==
    (IF IsSome(a.distance) THEN Val(a.distance) ELSE 0)
    - (IF IsSome(b.distance) THEN Val(b.distance) ELSE 0)

\* App.tsx:144: (a.distance ?? Infinity) - (b.distance ?? Infinity).
\* Infinity - Infinity is NaN, which sort takes as +0.
CompareDistance(a, b) ==
    CASE IsSome(a.distance) /\ IsSome(b.distance) ->
             Val(a.distance) - Val(b.distance)
      [] IsSome(a.distance) /\ ~IsSome(b.distance) -> -1
      [] ~IsSome(a.distance) /\ IsSome(b.distance) -> 1
      [] OTHER -> 0

\* Array.prototype.sort is stable: an element goes after every element
\* already placed that does not compare greater than it.
RECURSIVE InsertSorted(_, _)
InsertSorted(sorted, x) ==
    IF sorted = <<>> THEN <<x>>
    ELSE IF CompareDistance(Head(sorted), x) > 0 THEN <<x>> \o sorted
         ELSE <<Head(sorted)>> \o InsertSorted(Tail(sorted), x)

RECURSIVE SortByDistance(_)
SortByDistance(s) ==
    IF s = <<>> THEN <<>>
    ELSE InsertSorted(SortByDistance(SubSeq(s, 1, Len(s) - 1)), s[Len(s)])

\* Variant of RankedWith that, without a location, drops the businesses
\* that carry no coordinates.
RankedWith_DropsUnlocated(list, radius, loc) ==
    IF ~IsSome(loc)
    THEN LET located == SelectSeq(list, HasCoordinates)
         IN  [i \in 1..Len(located) |-> [biz |-> located[i], distance |-> None]]
    ELSE LET mapped == [i \in 1..Len(list) |-> WithDistance(Val(loc), list[i])]
             kept   == SelectSeq(mapped, LAMBDA e : WithinRadius(e, radius))
         IN  SortByDistance(kept)

\* App.tsx:130-145
RankedWith(list, radius, loc) ==
    IF ~IsSome(loc)
    THEN [i \in 1..Len(list) |-> [biz |-> list[i], distance |-> None]]
    ELSE LET mapped == [i \in 1..Len(list) |-> WithDistance(Val(loc), list[i])]
             kept   == SelectSeq(mapped, LAMBDA e : WithinRadius(e, radius))
         IN  SortByDistance(kept)

businessesWithDistance == RankedWith(businesses, searchRadius, location)

-----------------------------------------------------------------------------
(* Messages *)

MissingCategory == <<"Please enter a business category to search.">>

MissingLocation ==
    <<"Could not get your location. Please enable location services in your browser or enter a location manually.">>

NoResults(term) ==
    <<"No results found for \"">> \o term
    \o <<"\". Try a different category or location.">>

GeolocationFailed(msg) ==
    <<"Error getting location: ", msg,
      ". Please enable location services or enter a location below.">>

GeolocationUnsupported == <<"Geolocation is not supported by this browser.">>

-----------------------------------------------------------------------------
(* Initial state: the useState initial values (App.tsx:26-35); what the   *)
(* browser holds in localStorage; whether the build has an API key.       *)

\* Records a favourites list of an earlier session can hold.
StoredBusinesses ==
    { BusinessFromJson(Item("B", "p1", Some(30), Some(10))),
      BusinessFromChunk(Chunk("C", "maps://2c", "p2")) }

\* An earlier session wrote the slot with toggleFavorite, so a well-formed
\* slot holds a list without repeated placeIds.
StoredLists ==
    {l \in SeqsUpTo(StoredBusinesses, MaxStored) :
        \A i, j \in 1..Len(l) : l[i].placeId = l[j].placeId => i = j}

InitialStorage ==
    {None, Some(CorruptString)} \cup {Some(JSONstringify(l)) : l \in StoredLists}

Init ==
    /\ searchTerm = <<>>
    /\ manualLocation = <<>>
    /\ businesses = <<>>
    /\ favorites = <<>>
    /\ isLoading = FALSE
    /\ error = NULL
    /\ location = None
    /\ locationError = NULL
    /\ searchRadius = DefaultRadius
    /\ storage \in InitialStorage
    /\ mounted = FALSE
    /\ geoPending = FALSE
    /\ hasApiKey \in BOOLEAN
    /\ inFlight = <<>>

-----------------------------------------------------------------------------
(* Mount effects (App.tsx:37-67) *)

\* Variant of LoadedFavorites that reads nothing back.
LoadedFavorites_Never(slot) == None

\* App.tsx:39-46: the list setFavorites receives, if it is called at all.
\* getItem gives null for an absent slot; JSON.parse throws on a corrupt
\* one and the catch only logs.
LoadedFavorites(slot) ==
    IF IsSome(slot) /\ Val(slot).wellFormed
    THEN Some(JSONparse(Val(slot)))
    ELSE None

\* Both effects run once, after the first render.
MountEffects ==
    /\ ~mounted
    /\ mounted' = TRUE
    /\ favorites' = IF IsSome(LoadedFavorites(storage))
                    THEN Val(LoadedFavorites(storage)) ELSE favorites
    /\ \E supported \in BOOLEAN :
          IF supported
          THEN geoPending' = TRUE /\ locationError' = locationError
          ELSE geoPending' = FALSE /\ locationError' = GeolocationUnsupported
    /\ UNCHANGED <<searchTerm, manualLocation, businesses, isLoading, error,
                   location, searchRadius, storage, hasApiKey, inFlight>>

\* App.tsx:52-58
GeolocationSuccess ==
    /\ geoPending
    /\ \E position \in Positions : location' = Some(position)
    /\ locationError' = NULL
    /\ geoPending' = FALSE
    /\ UNCHANGED <<searchTerm, manualLocation, businesses, favorites, isLoading,
                   error, searchRadius, storage, mounted, hasApiKey, inFlight>>

\* App.tsx:59-62
GeolocationError ==
    /\ geoPending
    /\ locationError' = GeolocationFailed("User denied Geolocation")
    /\ error' = NULL
    /\ geoPending' = FALSE
    /\ UNCHANGED <<searchTerm, manualLocation, businesses, favorites, isLoading,
                   location, searchRadius, storage, mounted, hasApiKey, inFlight>>

-----------------------------------------------------------------------------
(* Inputs (App.tsx:226-275); each control is disabled while isLoading *)

\* App.tsx:229
SetSearchTerm ==
    /\ mounted /\ ~isLoading
    /\ \E t \in SearchTerms : searchTerm' = t
    /\ UNCHANGED <<manualLocation, businesses, favorites, isLoading, error,
                   location, locationError, searchRadius, storage, mounted,
                   geoPending, hasApiKey, inFlight>>

\* App.tsx:245-258: the box is rendered only with a locationError
SetManualLocation ==
    /\ mounted /\ ~isLoading /\ Truthy(locationError)
    /\ \E t \in ManualLocations : manualLocation' = t
    /\ UNCHANGED <<searchTerm, businesses, favorites, isLoading, error,
                   location, locationError, searchRadius, storage, mounted,
                   geoPending, hasApiKey, inFlight>>

\* App.tsx:260-275: the slider is rendered only with a location
SetSearchRadius ==
    /\ mounted /\ ~isLoading /\ IsSome(location)
    /\ \E r \in Radii : searchRadius' = r
    /\ UNCHANGED <<searchTerm, manualLocation, businesses, favorites, isLoading,
                   error, location, locationError, storage, mounted,
                   geoPending, hasApiKey, inFlight>>

-----------------------------------------------------------------------------
(* Favourites toggle (App.tsx:74-83) *)

\* App.tsx:177-192: the result cards are on screen
ResultsShown ==
    /\ ~isLoading /\ ~Truthy(error)
    /\ Len(businesses) > 0 /\ Len(businessesWithDistance) > 0

\* The businesses whose card, and so whose star, is on screen
\* (App.tsx:155-164, 181-190).
Cards ==
    Range(favorites)
    \cup (IF ResultsShown
          THEN {businessesWithDistance[i].biz :
                   i \in 1..Len(businessesWithDistance)}
          ELSE {})

\* Variant of toggleFavorite that writes the list as it was before the toggle.
toggleFavorite_PersistsOld(business) ==
    /\ favorites' = updatedFavorites(favorites, business)
    /\ storage' = Some(JSONstringify(favorites))
    /\ UNCHANGED <<searchTerm, manualLocation, businesses, isLoading, error,
                   location, locationError, searchRadius, mounted, geoPending,
                   hasApiKey, inFlight>>

toggleFavorite(business) ==
    /\ favorites' = updatedFavorites(favorites, business)
    /\ storage' = Some(JSONstringify(updatedFavorites(favorites, business)))
    /\ UNCHANGED <<searchTerm, manualLocation, businesses, isLoading, error,
                   location, locationError, searchRadius, mounted, geoPending,
                   hasApiKey, inFlight>>

ClickStar ==
    /\ mounted
    /\ \E business \in Cards : toggleFavorite(business)

-----------------------------------------------------------------------------
(* Search (App.tsx:85-120) *)

\* Variant of ValidationError that checks the location first.
ValidationError_LocationFirst(term, loc, manual) ==
    IF ~IsSome(loc) /\ ~Truthy(trim(manual)) THEN Some(MissingLocation)
    ELSE IF ~Truthy(trim(term)) THEN Some(MissingCategory)
    ELSE None

\* Variant of ValidationError that leaves the location to the service.
ValidationError_CategoryOnly(term, loc, manual) ==
    IF ~Truthy(trim(term)) THEN Some(MissingCategory) ELSE None

\* App.tsx:86-93: the message of the failed check, if any
ValidationError(term, loc, manual) ==
    IF ~Truthy(trim(term)) THEN Some(MissingCategory)
    ELSE IF ~IsSome(loc) /\ ~Truthy(trim(manual)) THEN Some(MissingLocation)
    ELSE None

\* Variant of handleSearch that leaves the result list as it is until the
\* lookup has returned.
handleSearch_KeepsResults ==
    IF IsSome(ValidationError(searchTerm, location, manualLocation))
    THEN /\ error' = Val(ValidationError(searchTerm, location, manualLocation))
         /\ UNCHANGED <<searchTerm, manualLocation, businesses, favorites,
                        isLoading, location, locationError, searchRadius,
                        storage, mounted, geoPending, hasApiKey, inFlight>>
    ELSE /\ isLoading' = TRUE
         /\ error' = NULL
         /\ inFlight' = Append(inFlight,
               findNearbyBusinessesCall(searchTerm, location, manualLocation))
         /\ UNCHANGED <<searchTerm, manualLocation, businesses, favorites,
                        location, locationError, searchRadius, storage, mounted,
                        geoPending, hasApiKey>>

\* App.tsx:85-100, up to the await
handleSearch ==
    IF IsSome(ValidationError(searchTerm, location, manualLocation))
    THEN /\ error' = Val(ValidationError(searchTerm, location, manualLocation))
         /\ UNCHANGED <<searchTerm, manualLocation, businesses, favorites,
                        isLoading, location, locationError, searchRadius,
                        storage, mounted, geoPending, hasApiKey, inFlight>>
    ELSE /\ isLoading' = TRUE
         /\ error' = NULL
         /\ businesses' = <<>>
         /\ inFlight' = Append(inFlight,
               findNearbyBusinessesCall(searchTerm, location, manualLocation))
         /\ UNCHANGED <<searchTerm, manualLocation, favorites, location,
                        locationError, searchRadius, storage, mounted,
                        geoPending, hasApiKey>>

\* App.tsx:236-238
ClickSearch ==
    /\ mounted
    /\ ~(isLoading \/ (~IsSome(location) /\ ~Truthy(trim(manualLocation))))
    /\ handleSearch

\* Variant of EnterInSearchBox whose input is not disabled while loading.
EnterInSearchBox_WhileLoading ==
    /\ mounted
    /\ handleSearch

\* App.tsx:116-120, 230, 233
EnterInSearchBox ==
    /\ mounted /\ ~isLoading
    /\ handleSearch

\* App.tsx:116-120, 245, 252, 255
EnterInLocationBox ==
    /\ mounted /\ ~isLoading /\ Truthy(locationError)
    /\ handleSearch

\* geminiService.ts:49-53: generateContent settles for a waiting call
GenerateContentSettles ==
    \E i \in 1..Len(inFlight) :
        /\ ~IsSome(inFlight[i].reply) /\ ~IsSome(inFlight[i].result)
        /\ \E r \in Rejections \cup (IF IsSome(inFlight[i].location)
                                    THEN JsonReplies ELSE MapsReplies) :
              inFlight' = [inFlight EXCEPT ![i].reply = Some(r)]
        /\ UNCHANGED <<searchTerm, manualLocation, businesses, favorites,
                       isLoading, error, location, locationError, searchRadius,
                       storage, mounted, geoPending, hasApiKey>>

\* geminiService.ts:55-93: findNearbyBusinesses continues after its await
\* and returns or throws
FindNearbyBusinessesReturns ==
    \E i \in 1..Len(inFlight) :
        /\ IsSome(inFlight[i].reply) /\ ~IsSome(inFlight[i].result)
        /\ inFlight' = [inFlight EXCEPT
                          ![i].result = Some(findNearbyBusinessesReturn(inFlight[i]))]
        /\ UNCHANGED <<searchTerm, manualLocation, businesses, favorites,
                       isLoading, error, location, locationError, searchRadius,
                       storage, mounted, geoPending, hasApiKey>>

Without(s, i) == SubSeq(s, 1, i - 1) \o SubSeq(s, i + 1, Len(s))

\* Variant of ResumeSearch that reports nothing for an empty list.
ResumeSearch_SilentWhenEmpty(i) ==
    LET call    == inFlight[i]
        results == Val(call.result)
    IN  /\ IsSome(call.result)
        /\ error' = IF results.ok THEN error ELSE results.message
        /\ businesses' = IF results.ok THEN results.value ELSE businesses
        /\ isLoading' = FALSE
        /\ inFlight' = Without(inFlight, i)
        /\ UNCHANGED <<searchTerm, manualLocation, favorites, location,
                       locationError, searchRadius, storage, mounted,
                       geoPending, hasApiKey>>

\* Variant of ResumeSearch whose catch branch leaves the loading flag set.
ResumeSearch_NoFinally(i) ==
    LET call    == inFlight[i]
        results == Val(call.result)
    IN  /\ IsSome(call.result)
        /\ IF results.ok
           THEN /\ error' = IF Len(results.value) = 0
                            THEN NoResults(call.category) ELSE error
                /\ businesses' = results.value
                /\ isLoading' = FALSE
           ELSE /\ error' = results.message
                /\ businesses' = businesses
                /\ isLoading' = isLoading
        /\ inFlight' = Without(inFlight, i)
        /\ UNCHANGED <<searchTerm, manualLocation, favorites, location,
                       locationError, searchRadius, storage, mounted,
                       geoPending, hasApiKey>>

\* App.tsx:100-113: handleSearch continues after its await
ResumeSearch(i) ==
    LET call    == inFlight[i]
        results == Val(call.result)
    IN  /\ IsSome(call.result)
        /\ IF results.ok
           THEN /\ error' = IF Len(results.value) = 0
                            THEN NoResults(call.category) ELSE error
                /\ businesses' = results.value
           ELSE /\ error' = results.message
                /\ businesses' = businesses
        /\ isLoading' = FALSE
        /\ inFlight' = Without(inFlight, i)
        /\ UNCHANGED <<searchTerm, manualLocation, favorites, location,
                       locationError, searchRadius, storage, mounted,
                       geoPending, hasApiKey>>

HandleSearchResumes == \E i \in 1..Len(inFlight) : ResumeSearch(i)

-----------------------------------------------------------------------------
(* What the main area shows: renderContent (App.tsx:170-205) *)

renderContent ==
    IF isLoading THEN "loader"
    ELSE IF Truthy(error) THEN "error"
    ELSE IF Len(businesses) > 0
    THEN IF Len(businessesWithDistance) > 0 THEN "cards" ELSE "none in radius"
    ELSE IF ~isLoading /\ Len(businesses) = 0 /\ ~Truthy(error)
            /\ Len(favorites) = 0
    THEN "welcome"
    ELSE "nothing"

-----------------------------------------------------------------------------

Next ==
    \/ MountEffects
    \/ GeolocationSuccess
    \/ GeolocationError
    \/ SetSearchTerm
    \/ SetManualLocation
    \/ SetSearchRadius
    \/ ClickStar
    \/ ClickSearch
    \/ EnterInSearchBox
    \/ EnterInLocationBox
    \/ GenerateContentSettles
    \/ FindNearbyBusinessesReturns
    \/ HandleSearchResumes

Spec == Init /\ [][Next]_vars

-----------------------------------------------------------------------------
(* The distance calculator on a grid of coordinates.  The application has  *)
(* a position and shows one business a search has returned; moving the     *)
(* slider and clicking the star render the lists again, and each render    *)
(* calls getDistance (App.tsx:137, 162).                                   *)

\* Widest gap, in 0.01 degree, between two latitudes or two longitudes that
\* are compared: it keeps the half angles within the range of sin.
MaxSeparation == 137

\* Latitudes on the equator and around 20 degrees north, where the cosine
\* changes from one to the next.
Latitudes == {-40, 0, 30, 1950, 2000, 2080}

Longitudes == {-50, 0, 60}

Coordinates == [latitude : Latitudes, longitude : Longitudes]

Abs(x) == IF x >= 0 THEN x ELSE -x

CoordinatePairs ==
    {p \in Coordinates \X Coordinates :
        /\ Abs(p[1].latitude - p[2].latitude) <= MaxSeparation
        /\ Abs(p[1].longitude - p[2].longitude) <= MaxSeparation}

DistanceInit ==
    \E p \in CoordinatePairs :
        /\ location = Some(p[1])
        /\ businesses = <<BusinessFromJson(
                             Item("A", "p1", Some(p[2].latitude),
                                  Some(p[2].longitude)))>>
        /\ searchTerm = <<"c">>
        /\ manualLocation = <<>>
        /\ favorites = <<>>
        /\ isLoading = FALSE
        /\ error = NULL
        /\ locationError = NULL
        /\ searchRadius = DefaultRadius
        /\ storage = None
        /\ mounted = TRUE
        /\ geoPending = FALSE
        /\ hasApiKey = TRUE
        /\ inFlight = <<>>

DistanceNext ==
    \/ SetSearchRadius
    \/ ClickStar

DistanceSpec == DistanceInit /\ [][DistanceNext]_vars

\* The continuation of the await in handleSearch (App.tsx:100) is a promise
\* reaction: once the promise of findNearbyBusinesses has settled the job
\* queue runs it.  Nothing obliges the request itself to be answered.
FairSpec ==
    /\ Spec
    /\ WF_vars(HandleSearchResumes)

-----------------------------------------------------------------------------
(* Claims about the removal of duplicates (geminiService.ts:83-85) *)

\* The calls that have returned a list
ReturnedCalls ==
    {i \in 1..Len(inFlight) :
        /\ IsSome(inFlight[i].reply)
        /\ IsSome(inFlight[i].result)
        /\ Val(inFlight[i].result).ok}

PlaceIds(list) == [i \in 1..Len(list) |-> list[i].placeId]

Occurrences(list, id) == {i \in 1..Len(list) : list[i].placeId = id}

Min(S) == CHOOSE x \in S : \A y \in S : x <= y

Max(S) == CHOOSE x \in S : \A y \in S : x >= y

\* The placeIds that several entries of the list carry
SharedIds(list) ==
    {id \in Range(PlaceIds(list)) : Cardinality(Occurrences(list, id)) > 1}

\* C1 as the specification states it: for every placeId that several entries of
\* the list returned by the lookup share, the result holds the data of the
\* FIRST entry carrying that id.
C1_KeepsFirstData ==
    \A c \in ReturnedCalls :
        LET raw == ReturnedBusinesses(inFlight[c])
            out == Val(inFlight[c].result).value
        IN  \A id \in SharedIds(raw) :
              \A k \in 1..Len(out) :
                 out[k].placeId = id => out[k] = raw[Min(Occurrences(raw, id))]

\* C1 amended: for every placeId that several entries of the list returned by
\* the lookup share, the result holds exactly one entry with that id, and it
\* is the data of the LAST entry carrying the id.
C1_KeepsLastData ==
    \A c \in ReturnedCalls :
        LET raw == ReturnedBusinesses(inFlight[c])
            out == Val(inFlight[c].result).value
        IN  \A id \in SharedIds(raw) :
              /\ \E k \in 1..Len(out) : out[k].placeId = id
              /\ \A k \in 1..Len(out) :
                    out[k].placeId = id => out[k] = raw[Max(Occurrences(raw, id))]

\* A call has returned for a list in which two entries share a placeId and
\* differ in their title.
C1_Witness ==
    \E c \in ReturnedCalls :
        LET raw == ReturnedBusinesses(inFlight[c])
        IN  \E a, b \in 1..Len(raw) :
              /\ a < b
              /\ raw[a].placeId = raw[b].placeId
              /\ raw[a].title # raw[b].title

\* A sequence of ids with every later repetition of an id removed
RECURSIVE WithoutRepetitions(_)
WithoutRepetitions(ids) ==
    IF ids = <<>> THEN <<>>
    ELSE LET before == WithoutRepetitions(SubSeq(ids, 1, Len(ids) - 1))
             last   == ids[Len(ids)]
         IN  IF last \in Range(before) THEN before ELSE Append(before, last)

\* C2: the placeIds of the result of findNearbyBusinesses are the placeIds of
\* the list returned by the lookup with every later repetition removed: each
\* distinct id once, no other id, in order of first appearance.
C2_IdsInOrderOfFirstAppearance ==
    \A c \in ReturnedCalls :
        LET raw == ReturnedBusinesses(inFlight[c])
            out == Val(inFlight[c].result).value
        IN  /\ PlaceIds(out) = WithoutRepetitions(PlaceIds(raw))
            /\ Range(PlaceIds(out)) = Range(PlaceIds(raw))
            /\ \A j, k \in 1..Len(out) : out[j].placeId = out[k].placeId => j = k

\* A call has returned for a list whose first id comes again after another id.
C2_Witness ==
    \E c \in ReturnedCalls :
        LET raw == ReturnedBusinesses(inFlight[c])
        IN  /\ Len(raw) >= 3
            /\ raw[1].placeId = raw[3].placeId
            /\ raw[1].placeId # raw[2].placeId
            /\ Len(Val(inFlight[c].result).value) = 2

-----------------------------------------------------------------------------
(* Claims about the ranker (App.tsx:130-145) *)

\* C3 as the specification states it: with a current location, every business
\* in businessesWithDistance lacks its latitude or its longitude, or lies
\* within the search radius; a coordinate of 0 degrees is a present one.
C3_RetainedWithinRadius ==
    IsSome(location) =>
        \A k \in 1..Len(businessesWithDistance) :
            LET biz == businessesWithDistance[k].biz
            IN  \/ ~IsSome(biz.latitude)
                \/ ~IsSome(biz.longitude)
                \/ getDistance(Val(location),
                               [latitude |-> Val(biz.latitude),
                                longitude |-> Val(biz.longitude)])
                     <= searchRadius * 1000

\* The entries the ranker retains, in the order of the result list
Retained ==
    LET mapped == [i \in 1..Len(businesses) |->
                     WithDistance(Val(location), businesses[i])]
    IN  SelectSeq(mapped, LAMBDA e : WithinRadius(e, searchRadius))

\* a sorts strictly before b: defined before undefined, smaller before larger
NearerThan(a, b) ==
    /\ IsSome(a.distance)
    /\ (IsSome(b.distance) => Val(a.distance) < Val(b.distance))

PositionIn(list, e) == CHOOSE k \in 1..Len(list) : list[k] = e

\* C4: with a current location, businessesWithDistance is the stable ascending
\* sort of the retained entries by distance, an undefined distance counting as
\* infinite: the same entries, no entry before one it is farther than, every
\* undefined distance after every defined one, and entries of equal distance
\* (undefined ones too) in their order in the result list.
C4_StableAscendingSort ==
    IsSome(location) =>
        LET out == businessesWithDistance
        IN  /\ Len(out) = Len(Retained)
            /\ Range(out) = Range(Retained)
            /\ \A i, j \in 1..Len(out) :
                  i < j =>
                    /\ ~NearerThan(out[j], out[i])
                    /\ (~IsSome(out[i].distance) => ~IsSome(out[j].distance))
                    /\ (~NearerThan(out[i], out[j]) =>
                          PositionIn(Retained, out[i]) < PositionIn(Retained, out[j]))

\* The ranker has put three entries in another order than the result list's:
\* two at the same distance and one with an undefined distance, which came
\* first in the result list.
C4_Witness ==
    /\ IsSome(location)
    /\ Len(businessesWithDistance) = 3
    /\ ~IsSome(Retained[1].distance)
    /\ IsSome(businessesWithDistance[1].distance)
    /\ businessesWithDistance[1].distance = businessesWithDistance[2].distance
    /\ ~IsSome(businessesWithDistance[3].distance)

-----------------------------------------------------------------------------
(* Claims about the favourites (App.tsx:37-47, 69-83) *)

\* C5: in every reachable state, before and after the startup load and after
\* any sequence of toggles, no two favourites have the same placeId.
C5_NoTwoFavoritesShareAPlaceId ==
    \A i, j \in 1..Len(favorites) :
        favorites[i].placeId = favorites[j].placeId => i = j

\* Toggles have filled the list beyond what the startup load can bring, with
\* every placeId of the model.
C5_Witness ==
    /\ mounted
    /\ Len(favorites) > MaxStored
    /\ {favorites[i].placeId : i \in 1..Len(favorites)} = {"p1", "p2", "p3"}

SameId(favs, business) == {f \in Range(favs) : f.placeId = business.placeId}

\* C6 as the specification states it: toggling any business twice in
\* succession gives a favourites list equal, as a set of records, to the one
\* before.
C6_ToggleTwiceRestoresRecords ==
    mounted =>
        \A b \in Cards :
            Range(updatedFavorites(updatedFavorites(favorites, b), b))
              = Range(favorites)

\* C6 amended: toggling a business b twice in succession restores the set of
\* placeIds; it restores the set of records when no favourite had b's placeId,
\* and otherwise leaves the favourites with b in place of the record that had
\* b's placeId, which is the same set exactly when that record was b itself.
C6_ToggleTwiceRestoresIds ==
    mounted =>
        \A b \in Cards :
            LET twice == updatedFavorites(updatedFavorites(favorites, b), b)
            IN  /\ Range(PlaceIds(twice)) = Range(PlaceIds(favorites))
                /\ Len(twice) = Len(favorites)
                /\ IF SameId(favorites, b) = {}
                   THEN Range(twice) = Range(favorites)
                   ELSE Range(twice)
                          = (Range(favorites) \ SameId(favorites, b)) \cup {b}
                /\ (SameId(favorites, b) = {b} => Range(twice) = Range(favorites))

\* A card on screen shows a business that has the placeId of a favourite and
\* other data, next to a card of a favourite and a card of a business that is
\* no favourite.
C6_Witness ==
    /\ mounted
    /\ \E b \in Cards : SameId(favorites, b) # {} /\ b \notin Range(favorites)
    /\ \E b \in Cards : b \in Range(favorites)
    /\ \E b \in Cards : SameId(favorites, b) = {}

-----------------------------------------------------------------------------
(* Claims about the search (App.tsx:85-114, 170-205) *)

SearchInvoked == ClickSearch \/ EnterInSearchBox \/ EnterInLocationBox

\* C8: a search invoked with a category that is blank after trimming sets the
\* missing-category message and starts no lookup, whatever the location is.
C8_BlankCategoryFailsFirst ==
    [][(SearchInvoked /\ ~Truthy(trim(searchTerm))) =>
          /\ error' = MissingCategory
          /\ inFlight' = inFlight
          /\ isLoading' = isLoading
          /\ businesses' = businesses]_vars

\* The missing-category message stands while category, coordinates and manual
\* location are all missing, and no lookup is under way.
C8_Witness ==
    /\ error = MissingCategory
    /\ ~Truthy(trim(searchTerm))
    /\ ~IsSome(location)
    /\ ~Truthy(trim(manualLocation))
    /\ inFlight = <<>>
    /\ ~isLoading

\* C9: a search invoked with a non-blank category, no coordinates and a manual
\* location that is blank after trimming sets the missing-location message,
\* starts no lookup and leaves isLoading false.
C9_MissingLocationFails ==
    [][(/\ SearchInvoked
        /\ Truthy(trim(searchTerm))
        /\ ~IsSome(location)
        /\ ~Truthy(trim(manualLocation))) =>
          /\ error' = MissingLocation
          /\ inFlight' = inFlight
          /\ ~isLoading /\ ~isLoading'
          /\ businesses' = businesses]_vars

\* The missing-location message stands for a non-blank category, with a
\* manual location of white space only, and no lookup is under way.
C9_Witness ==
    /\ error = MissingLocation
    /\ Truthy(trim(searchTerm))
    /\ ~IsSome(location)
    /\ Truthy(manualLocation) /\ ~Truthy(trim(manualLocation))
    /\ inFlight = <<>>
    /\ ~isLoading

\* handleSearch continues with a lookup that returned an empty list
ResumesWithEmptyList ==
    \E i \in 1..Len(inFlight) :
        /\ ResumeSearch(i)
        /\ Val(inFlight[i].result).ok
        /\ Len(Val(inFlight[i].result).value) = 0

\* handleSearch continues with a lookup that threw
ResumesWithFailure ==
    \E i \in 1..Len(inFlight) :
        /\ ResumeSearch(i)
        /\ ~Val(inFlight[i].result).ok

NoResultsMessages == {NoResults(t) : t \in SearchTerms}

\* C10 as the specification states it: a lookup that succeeds with an empty
\* list ends in a state that shows no error, and a failed lookup never ends
\* in the state of an empty one.
C10_NoResultsIsNotAnError ==
    [][/\ ResumesWithEmptyList => (~Truthy(error') /\ renderContent' # "error")
       /\ ResumesWithFailure => error' \notin NoResultsMessages]_vars

\* C10 amended: a lookup that succeeds with an empty list sets error to the
\* 'No results found for "<category>"' message, and the main area shows it the
\* way it shows the message of a failed lookup; the two outcomes differ in
\* the text of error only: a failed lookup never sets a no-results message.
C10_NoResultsIsAnErrorMessage ==
    [][/\ ResumesWithEmptyList =>
            /\ \E i \in 1..Len(inFlight) : error' = NoResults(inFlight[i].category)
            /\ Truthy(error') /\ renderContent' = "error"
            /\ businesses' = <<>> /\ ~isLoading'
       /\ ResumesWithFailure =>
            /\ Truthy(error') /\ renderContent' = "error"
            /\ error' \notin NoResultsMessages
            /\ businesses' = <<>> /\ ~isLoading']_vars

\* A search has ended with the no-results message.
C10_Witness ==
    /\ error \in NoResultsMessages
    /\ businesses = <<>>
    /\ ~isLoading
    /\ inFlight = <<>>

-----------------------------------------------------------------------------
(* Claims about overlapping searches (App.tsx:85-120, 226-243) *)

\* C11 as the specification states it: while the lookup of an earlier search
\* is still pending, the user can trigger a search again.
C11_SearchWhilePending ==
    inFlight # <<>> => ENABLED SearchInvoked

\* C11 amended: from the start of a validated search until handleSearch has
\* continued with its outcome, isLoading is true and the button and both text
\* boxes that invoke handleSearch are disabled; so no search can be triggered
\* while a lookup is pending, at most one lookup is in flight in any
\* reachable state, and the only response there is determines the result list.
C11_OneLookupAtATime ==
    /\ Len(inFlight) <= 1
    /\ inFlight # <<>> => (isLoading /\ ~ENABLED SearchInvoked)

\* The reply to the one pending lookup has arrived and handleSearch has not
\* continued yet.
C11_Witness ==
    /\ Len(inFlight) = 1
    /\ IsSome(inFlight[1].reply)
    /\ isLoading
    /\ Truthy(trim(searchTerm))

-----------------------------------------------------------------------------
(* Claims about the end of a search (App.tsx:95-114, geminiService.ts:87-93) *)

\* The lookup of the search under way has returned or failed.
LookupSettled ==
    \E i \in 1..Len(inFlight) : IsSome(inFlight[i].result)

FailureMessages ==
    {Rethrow(r.isError, r.message).message : r \in Rejections}
    \cup {Rethrow(TRUE, <<"Unexpected token in JSON">>).message,
          Rethrow(TRUE, <<"API_KEY environment variable not set">>).message}

\* C12: once the lookup of a validated search has returned or failed, the
\* search eventually reaches a state with isLoading false; when handleSearch
\* continues with a failed lookup it sets a non-empty error message and clears
\* isLoading in the same step; and whenever isLoading is false (after mount) a
\* search can be invoked again.
C12_SearchEndsAndCanBeRetried ==
    /\ LookupSettled ~> ~isLoading
    /\ [][ResumesWithFailure =>
            /\ Truthy(error')
            /\ error' \in FailureMessages
            /\ ~isLoading']_vars
    /\ [](mounted /\ ~isLoading => ENABLED SearchInvoked)

\* A lookup has failed: its message is shown, nothing is loading, no lookup
\* is left, and the category that was searched for is still in the box.
C12_Witness ==
    /\ error \in FailureMessages
    /\ ~isLoading
    /\ inFlight = <<>>
    /\ Truthy(trim(searchTerm))
    /\ ENABLED SearchInvoked

-----------------------------------------------------------------------------
(* Claims about the startup load of favourites (App.tsx:37-47) *)

SlotUnreadable ==
    \/ ~IsSome(storage)
    \/ IsSome(storage) /\ ~Val(storage).wellFormed

\* C13: the mount effect sets favorites to the list whose serialization the
\* slot holds; with an absent or unparseable slot favorites is the empty
\* list; and in either case the error state stays null and the main area
\* shows no error.
C13_LoadYieldsStoredListOrEmpty ==
    [][MountEffects =>
         /\ \A l \in StoredLists :
               storage = Some(JSONstringify(l)) => favorites' = l
         /\ SlotUnreadable => favorites' = <<>>
         /\ error' = NULL
         /\ renderContent' # "error"]_vars

\* The application has started on a slot that does not parse: no favourites,
\* no error, the welcome prompt is shown.
C13_Witness ==
    /\ mounted
    /\ storage = Some(CorruptString)
    /\ favorites = <<>>
    /\ error = NULL
    /\ renderContent = "welcome"

-----------------------------------------------------------------------------
(* Claims about ranking without a location (App.tsx:130-133) *)

\* C14: while there is no current location, for the radius in the state and
\* for every other radius, the ranked list has the length of the result
\* list, its i-th entry holds the i-th business of the result list, and
\* every entry has an undefined distance.
C14_PassThroughWithoutLocation ==
    ~IsSome(location) =>
        \A r \in Radii \cup {searchRadius} :
            LET ranked == RankedWith(businesses, r, location)
            IN  /\ Len(ranked) = Len(businesses)
                /\ \A i \in 1..Len(businesses) :
                      /\ ranked[i].biz = businesses[i]
                      /\ ~IsSome(ranked[i].distance)

\* A search by manual location has returned two or more businesses and
\* they are on display.
C14_Witness ==
    /\ ~IsSome(location)
    /\ Len(businesses) >= 2
    /\ Len(businessesWithDistance) = Len(businesses)
    /\ renderContent = "cards"

-----------------------------------------------------------------------------
(* Claims about the distance calculator (App.tsx:9-22) *)

\* The coordinates the renders pass to getDistance: the position, and those
\* of the businesses in the result list and among the favourites.
ComparedCoordinates ==
    {Val(location)}
    \cup {[latitude |-> Val(b.latitude), longitude |-> Val(b.longitude)] :
            b \in {x \in Range(businesses) \cup Range(favorites) :
                     IsSome(x.latitude) /\ IsSome(x.longitude)}}

-----------------------------------------------------------------------------
(* Claims about the reset at the start of a search (App.tsx:95-113) *)

\* A search is invoked and passes validation
ValidatedSearch ==
    /\ SearchInvoked
    /\ ~IsSome(ValidationError(searchTerm, location, manualLocation))

\* C16: a search that passes validation empties the result list, sets error
\* to null and hands the lookup its arguments in one step; while a lookup is
\* under way the result list is empty; and when handleSearch continues with
\* a failed lookup the result list is empty and the error is set.
C16_ValidatedSearchClearsResults ==
    /\ [][ValidatedSearch =>
            /\ businesses' = <<>>
            /\ error' = NULL
            /\ isLoading'
            /\ Len(inFlight') = Len(inFlight) + 1]_vars
    /\ [][ResumesWithFailure =>
            /\ businesses' = <<>>
            /\ Truthy(error')]_vars
    /\ [](inFlight # <<>> => businesses = <<>>)

\* A business that only a successful search can have brought is among the
\* favourites, and a later search has failed: its message is shown and no
\* result is left.
C16_Witness ==
    /\ \E i \in 1..Len(favorites) : favorites[i].title = "A"
    /\ error \in FailureMessages
    /\ businesses = <<>>
    /\ ~isLoading
    /\ inFlight = <<>>

=============================================================================
